---- MODULE Spec2Model ----
(***************************************************************************)
(* fn_zip: two callable units zipped into one (ZippedFn), and the two-way  *)
(* future join (Join / JoinedPair) returned by its asynchronous forms.     *)
(*                                                                         *)
(* The children LF and RF are generic in the source.  A child is modelled  *)
(* as a closure with a captured state `st`; its output is the term         *)
(* Apply(side, st, args), so that any mix-up of sides, of argument slices  *)
(* or of invocations shows in the value.  A child future completes on its  *)
(* need-th poll with the output fixed when the child was invoked.          *)
(*                                                                         *)
(* The parallel variant (ZippedFnPar) runs each child on a scoped worker   *)
(* thread; its invocation is modelled step by step (spawn, run, join, end  *)
(* of the scope) so that every interleaving of the two workers is covered. *)
(***************************************************************************)
EXTENDS Integers, Sequences, FiniteSets

\* ---------------------------------------------------------------- bounds
MaxArity == 2
MaxCalls == 2
MaxPolls == 3

\* the argument values of the tests (lib.rs: x_a = 4.0, x_b = 23)
ArgVals == {4, 23}
Arities == 0..MaxArity
Needs == 1..MaxPolls
\* drive steps one join may be given: enough for both children one after
\* the other, and two more after the pair was reported
MaxSteps == 2 * MaxPolls + 1

VARIABLES
    LX,       \* arity of the left parameter list  (type parameter LX)
    RX,       \* arity of the right parameter list (type parameter RX)
    zipped,   \* the ZippedFn: [alive, left, right]
    rets,     \* returns of the synchronous invocations so far, oldest first
    effects,  \* child invocations made by the last synchronous invocation
    join,     \* the join returned by the last asynchronous invocation
    held,     \* an earlier join of async_call the caller still holds
    par,      \* the ZippedFnPar's own fields: thread_names, thread_stack_sizes
    pcall     \* the parallel invocation in flight, or the last one

vars == <<LX, RX, zipped, rets, effects, join, held, par, pcall>>

\* ------------------------------------------------------------ children
\* capability tiers of a callable unit: Fn implies FnMut implies FnOnce
Tiers == {"Fn", "FnMut", "FnOnce"}

IsFnMut(child) == child.tier \in {"Fn", "FnMut"}

IsFn(child) == child.tier = "Fn"

\* the value a child returns for `args` when its captured state is `st`
Apply(side, st, args) == [fn |-> side, st |-> st, args |-> args]

\* LF::call_once / RF::call_once: the child is moved into the call
Child_call_once(child, side, args, log) ==
    [child |-> child,
     out   |-> Apply(side, child.st, args),
     log   |-> Append(log, <<side, args>>)]

\* LF::call_mut / RF::call_mut: a child that is only FnMut may change its
\* captured state; the state after the call records the arguments seen
Child_call_mut(child, side, args, log) ==
    [child |-> IF IsFn(child) THEN child
               ELSE [child EXCEPT !.st = Append(@, args)],
     out   |-> Apply(side, child.st, args),
     log   |-> Append(log, <<side, args>>)]

\* mutant: call goes through a mutating path and changes the captured state
M_Child_call_mutates(child, side, args, log) ==
    [child |-> [child EXCEPT !.st = Append(@, args)],
     out   |-> Apply(side, child.st, args),
     log   |-> Append(log, <<side, args>>)]

\* LF::call / RF::call: shared access, the captured state is only read
Child_call(child, side, args, log) ==
    [child |-> child,
     out   |-> Apply(side, child.st, args),
     log   |-> Append(log, <<side, args>>)]

\* ------------------------------------------------------- argument split
\* tuple_split::split_tuple_into::<LX, RX>: the first LX arguments and the
\* remaining ones, in order
\* mutant: the split point is the arity of the right list
M_split_at_RX(args) ==
    <<SubSeq(args, 1, RX), SubSeq(args, RX + 1, Len(args))>>

split_tuple_into(args) ==
    <<SubSeq(args, 1, LX), SubSeq(args, LX + 1, Len(args))>>

\* tupleops::ConcatTuples<LX, RX>: the combined argument lists
\* concatenation of a left and a right parameter list, left first
concat_tuples(l, r) == l \o r

ConcatTuples == [1..(LX + RX) -> ArgVals]

\* ------------------------------------------------------------- ZippedFn
ZippedFn_new(left, right) == [alive |-> TRUE, left |-> left, right |-> right]

\* mutant: the right child is invoked before the left one
M_call_once_right_first(z, args) ==
    LET s == split_tuple_into(args)
        r == Child_call_once(z.right, "right", s[2], <<>>)
        l == Child_call_once(z.left, "left", s[1], r.log)
    IN  [z   |-> [z EXCEPT !.alive = FALSE],
         out |-> <<l.out, r.out>>,
         log |-> l.log]

ZippedFn_call_once(z, args) ==
    LET s == split_tuple_into(args)
        l == Child_call_once(z.left, "left", s[1], <<>>)
        r == Child_call_once(z.right, "right", s[2], l.log)
    IN  [z   |-> [z EXCEPT !.alive = FALSE],
         out |-> <<l.out, r.out>>,
         log |-> r.log]

\* mutant: the two slices are handed to the wrong children
M_call_mut_swapped_slices(z, args) ==
    LET s == split_tuple_into(args)
        l == Child_call_mut(z.left, "left", s[2], <<>>)
        r == Child_call_mut(z.right, "right", s[1], l.log)
    IN  [z   |-> [z EXCEPT !.left = l.child, !.right = r.child],
         out |-> <<l.out, r.out>>,
         log |-> r.log]

\* mutant: the left child is handed the whole combined argument list
M_call_mut_left_sees_all(z, args) ==
    LET s == split_tuple_into(args)
        l == Child_call_mut(z.left, "left", args, <<>>)
        r == Child_call_mut(z.right, "right", s[2], l.log)
    IN  [z   |-> [z EXCEPT !.left = l.child, !.right = r.child],
         out |-> <<l.out, r.out>>,
         log |-> r.log]

ZippedFn_call_mut(z, args) ==
    LET s == split_tuple_into(args)
        l == Child_call_mut(z.left, "left", s[1], <<>>)
        r == Child_call_mut(z.right, "right", s[2], l.log)
    IN  [z   |-> [z EXCEPT !.left = l.child, !.right = r.child],
         out |-> <<l.out, r.out>>,
         log |-> r.log]

ZippedFn_call(z, args) ==
    LET s == split_tuple_into(args)
        l == Child_call(z.left, "left", s[1], <<>>)
        r == Child_call(z.right, "right", s[2], l.log)
    IN  [z   |-> [z EXCEPT !.left = l.child, !.right = r.child],
         out |-> <<l.out, r.out>>,
         log |-> r.log]

\* ----------------------------------------------------- child futures
\* the suspended computation a child returns: it completes with `out` on
\* its need-th poll; `polls` counts the polls it has been given
NewFuture(need, out) == [need |-> need, polls |-> 0, out |-> out]

\* <F as Future>::poll of a child.  Polling a future again after it has
\* completed breaks the contract of Future::poll; an async fn panics there
Future_poll(f) ==
    LET g == [f EXCEPT !.polls = @ + 1]
    IN  IF g.polls < g.need THEN [fut |-> g, res |-> "Pending"]
        ELSE IF g.polls = g.need THEN [fut |-> g, res |-> "Ready"]
        ELSE [fut |-> g, res |-> "Panic"]

\* LF::async_call_once / async_call_mut / async_call: the child only builds
\* its future, nothing of it runs before the first poll
Child_async_call(child, side, args, need) ==
    NewFuture(need, Apply(side, child.st, args))

\* ------------------------------------------------- private::MaybeDone
NoVal == [fn |-> "none"]

\* `hist` lists the variants this MaybeDone has been, oldest first
MaybeDone_Future(f) ==
    [tag |-> "Future", fut |-> f, val |-> NoVal, hist |-> <<"Future">>]

\* self.set(Self::Done(val)): the future is dropped, its last state is kept
\* here as a record of how often it was polled
MaybeDone_set_Done(md, f, val) ==
    [tag |-> "Done", fut |-> f, val |-> val, hist |-> Append(md.hist, "Done")]

\* core::mem::replace(self, Self::Taken)
MaybeDone_set_Taken(md) ==
    [md EXCEPT !.tag = "Taken", !.val = NoVal, !.hist = Append(@, "Taken")]

\* mutant: the value is handed out but the side stays Done
M_take_output_keeps_Done(md) ==
    IF md.tag = "Done"
    THEN [md |-> md, some |-> TRUE, val |-> md.val]
    ELSE [md |-> md, some |-> FALSE, val |-> NoVal]

MaybeDone_take_output(md) ==
    IF md.tag = "Done"
    THEN [md |-> MaybeDone_set_Taken(md), some |-> TRUE, val |-> md.val]
    ELSE [md |-> md, some |-> FALSE, val |-> NoVal]

\* mutant: a completed future leaves the side Taken, its value dropped
M_poll_skips_Done(md) ==
    CASE md.tag = "Future" ->
            LET p == Future_poll(md.fut)
            IN  IF p.res = "Ready"
                THEN [md  |-> [md EXCEPT !.tag = "Taken", !.fut = p.fut,
                                         !.hist = Append(@, "Taken")],
                      res |-> "Ready"]
                ELSE [md |-> [md EXCEPT !.fut = p.fut], res |-> p.res]
      [] md.tag = "Done"  -> [md |-> md, res |-> "Ready"]
      [] md.tag = "Taken" -> [md |-> md, res |-> "Panic"]

\* mutant: a completed future is reported ready but the side is not set Done
M_poll_forgets_Done(md) ==
    CASE md.tag = "Future" ->
            LET p == Future_poll(md.fut)
            IN  [md |-> [md EXCEPT !.fut = p.fut], res |-> p.res]
      [] md.tag = "Done"  -> [md |-> md, res |-> "Ready"]
      [] md.tag = "Taken" -> [md |-> md, res |-> "Panic"]

MaybeDone_poll(md) ==
    CASE md.tag = "Future" ->
            LET p == Future_poll(md.fut)
            IN  IF p.res = "Ready"
                THEN [md  |-> MaybeDone_set_Done(md, p.fut, p.fut.out),
                      res |-> "Ready"]
                ELSE [md |-> [md EXCEPT !.fut = p.fut], res |-> p.res]
      [] md.tag = "Done"  -> [md |-> md, res |-> "Ready"]
      [] md.tag = "Taken" -> [md |-> md, res |-> "Panic"]

\* ---------------------------------------------------------------- Join
NoJoin == [kind |-> "None"]

NewJoin(kind, form, args, left, right) ==
    [kind    |-> kind,      \* "Join" (zipped_fn.rs) or "JoinedPair" (join.rs)
     form    |-> form,      \* the invocation that returned it
     args    |-> args,
     pre     |-> zipped,    \* the ZippedFn it was returned by
     left    |-> left,
     right   |-> right,
     steps   |-> 0,         \* drive steps so far
     polled  |-> "None",    \* what the last drive step returned
     output  |-> NoVal,     \* the pair of the last "Ready"
     readies |-> 0,         \* how many drive steps returned "Ready"
     readyAt |-> 0]         \* the drive step of the first "Ready"

\* mutant: the pair is packed right value first
M_Join_poll_swapped(j) ==
    LET l == MaybeDone_poll(j.left)
    IN  IF l.res # "Ready"
        THEN [left |-> l.md, right |-> j.right, res |-> l.res, out |-> NoVal]
        ELSE
        LET r == MaybeDone_poll(j.right)
        IN  IF r.res # "Ready"
            THEN [left |-> l.md, right |-> r.md, res |-> r.res, out |-> NoVal]
            ELSE
            LET tl == MaybeDone_take_output(l.md)
                tr == MaybeDone_take_output(r.md)
            IN  IF ~tl.some \/ ~tr.some
                THEN [left |-> tl.md, right |-> tr.md, res |-> "Panic",
                      out |-> NoVal]
                ELSE [left |-> tl.md, right |-> tr.md, res |-> "Ready",
                      out |-> <<tr.val, tl.val>>]

\* mutant: the second operand polls the left side once more, never the right
M_Join_poll_left_twice(j) ==
    LET l == MaybeDone_poll(j.left)
    IN  IF l.res # "Ready"
        THEN [left |-> l.md, right |-> j.right, res |-> l.res, out |-> NoVal]
        ELSE
        LET l2 == MaybeDone_poll(l.md)
        IN  IF l2.res # "Ready"
            THEN [left |-> l2.md, right |-> j.right, res |-> l2.res,
                  out |-> NoVal]
            ELSE
            LET tl == MaybeDone_take_output(l2.md)
                tr == MaybeDone_take_output(j.right)
            IN  IF ~tl.some \/ ~tr.some
                THEN [left |-> tl.md, right |-> tr.md, res |-> "Panic",
                      out |-> NoVal]
                ELSE [left |-> tl.md, right |-> tr.md, res |-> "Ready",
                      out |-> <<tl.val, tr.val>>]

\* mutant: the left value is collected as soon as the left side is ready
M_Join_poll_takes_left_early(j) ==
    LET l == MaybeDone_poll(j.left)
    IN  IF l.res # "Ready"
        THEN [left |-> l.md, right |-> j.right, res |-> l.res, out |-> NoVal]
        ELSE
        LET tl == MaybeDone_take_output(l.md)
            r  == MaybeDone_poll(j.right)
        IN  IF ~tl.some
            THEN [left |-> tl.md, right |-> j.right, res |-> "Panic",
                  out |-> NoVal]
            ELSE IF r.res # "Ready"
            THEN [left |-> tl.md, right |-> r.md, res |-> r.res,
                  out |-> NoVal]
            ELSE
            LET tr == MaybeDone_take_output(r.md)
            IN  IF ~tr.some
                THEN [left |-> tl.md, right |-> tr.md, res |-> "Panic",
                      out |-> NoVal]
                ELSE [left |-> tl.md, right |-> tr.md, res |-> "Ready",
                      out |-> <<tl.val, tr.val>>]

\* mutant: the right side gets its first poll one drive step after the
\* left side became ready
M_Join_poll_right_one_late(j) ==
    LET l == MaybeDone_poll(j.left)
    IN  IF l.res # "Ready"
        THEN [left |-> l.md, right |-> j.right, res |-> l.res, out |-> NoVal]
        ELSE IF j.left.tag = "Future"
        THEN [left |-> l.md, right |-> j.right, res |-> "Pending",
              out |-> NoVal]
        ELSE
        LET r == MaybeDone_poll(j.right)
        IN  IF r.res # "Ready"
            THEN [left |-> l.md, right |-> r.md, res |-> r.res, out |-> NoVal]
            ELSE
            LET tl == MaybeDone_take_output(l.md)
                tr == MaybeDone_take_output(r.md)
            IN  IF ~tl.some \/ ~tr.some
                THEN [left |-> tl.md, right |-> tr.md, res |-> "Panic",
                      out |-> NoVal]
                ELSE [left |-> tl.md, right |-> tr.md, res |-> "Ready",
                      out |-> <<tl.val, tr.val>>]

\* Join::poll: what the drive step returns and the two sides it leaves
Join_poll(j) ==
    LET l == MaybeDone_poll(j.left)
    IN  IF l.res # "Ready"
        THEN [left |-> l.md, right |-> j.right, res |-> l.res, out |-> NoVal]
        ELSE
        LET r == MaybeDone_poll(j.right)
        IN  IF r.res # "Ready"
            THEN [left |-> l.md, right |-> r.md, res |-> r.res, out |-> NoVal]
            ELSE
            LET tl == MaybeDone_take_output(l.md)
            IN  IF ~tl.some
                THEN [left |-> tl.md, right |-> r.md, res |-> "Panic",
                      out |-> NoVal]
                ELSE
                LET tr == MaybeDone_take_output(r.md)
                IN  IF ~tr.some
                    THEN [left |-> tl.md, right |-> tr.md, res |-> "Panic",
                          out |-> NoVal]
                    ELSE [left |-> tl.md, right |-> tr.md, res |-> "Ready",
                          out |-> <<tl.val, tr.val>>]

\* ------------------------------------------------ join.rs: JoinedPair
JoinedPair_MaybeDone_take_output(md) ==
    IF md.tag = "Done"
    THEN [md |-> MaybeDone_set_Taken(md), some |-> TRUE, val |-> md.val]
    ELSE [md |-> md, some |-> FALSE, val |-> NoVal]

JoinedPair_MaybeDone_poll(md) ==
    CASE md.tag = "Future" ->
            LET p == Future_poll(md.fut)
            IN  IF p.res = "Ready"
                THEN [md  |-> MaybeDone_set_Done(md, p.fut, p.fut.out),
                      res |-> "Ready"]
                ELSE [md |-> [md EXCEPT !.fut = p.fut], res |-> p.res]
      [] md.tag = "Done"  -> [md |-> md, res |-> "Ready"]
      [] md.tag = "Taken" -> [md |-> md, res |-> "Panic"]

JoinedPair_new(left, right) ==
    NewJoin("JoinedPair", "new", <<>>,
            MaybeDone_Future(left), MaybeDone_Future(right))

\* mutant: the readiness check is `&&`: the outputs are collected as soon
\* as one side is ready
M_JoinedPair_poll_either_ready(j) ==
    LET l  == JoinedPair_MaybeDone_poll(j.left)
        r  == IF l.res = "Ready" THEN [md |-> j.right, res |-> "Ready"]
              ELSE JoinedPair_MaybeDone_poll(j.right)
        tl == JoinedPair_MaybeDone_take_output(l.md)
        tr == JoinedPair_MaybeDone_take_output(r.md)
    IN  IF l.res = "Panic" \/ r.res = "Panic"
        THEN [left |-> l.md, right |-> r.md, res |-> "Panic", out |-> NoVal]
        ELSE IF l.res # "Ready" /\ r.res # "Ready"
        THEN [left |-> l.md, right |-> r.md, res |-> "Pending",
              out |-> NoVal]
        ELSE IF ~tl.some
        THEN [left |-> tl.md, right |-> r.md, res |-> "Panic", out |-> NoVal]
        ELSE IF ~tr.some
        THEN [left |-> tl.md, right |-> tr.md, res |-> "Panic",
              out |-> NoVal]
        ELSE [left |-> tl.md, right |-> tr.md, res |-> "Ready",
              out |-> <<tl.val, tr.val>>]

JoinedPair_poll(j) ==
    LET l == JoinedPair_MaybeDone_poll(j.left)
    IN  IF l.res # "Ready"
        THEN [left |-> l.md, right |-> j.right, res |-> l.res, out |-> NoVal]
        ELSE
        LET r == JoinedPair_MaybeDone_poll(j.right)
        IN  IF r.res # "Ready"
            THEN [left |-> l.md, right |-> r.md, res |-> r.res, out |-> NoVal]
            ELSE
            LET tl == JoinedPair_MaybeDone_take_output(l.md)
            IN  IF ~tl.some
                THEN [left |-> tl.md, right |-> r.md, res |-> "Panic",
                      out |-> NoVal]
                ELSE
                LET tr == JoinedPair_MaybeDone_take_output(r.md)
                IN  IF ~tr.some
                    THEN [left |-> tl.md, right |-> tr.md, res |-> "Panic",
                          out |-> NoVal]
                    ELSE [left |-> tl.md, right |-> tr.md, res |-> "Ready",
                          out |-> <<tl.val, tr.val>>]

\* ------------------------------------------- ZippedFn, asynchronous forms
\* mutant: the ZippedFn stays usable after async_call_once
M_async_call_once_keeps(z, args, nl, nr) ==
    LET s == split_tuple_into(args)
    IN  [z    |-> z,
         join |-> NewJoin("Join", "async_call_once", args,
                    MaybeDone_Future(Child_async_call(z.left, "left", s[1], nl)),
                    MaybeDone_Future(Child_async_call(z.right, "right", s[2], nr)))]

ZippedFn_async_call_once(z, args, nl, nr) ==
    LET s == split_tuple_into(args)
    IN  [z    |-> [z EXCEPT !.alive = FALSE],
         join |-> NewJoin("Join", "async_call_once", args,
                    MaybeDone_Future(Child_async_call(z.left, "left", s[1], nl)),
                    MaybeDone_Future(Child_async_call(z.right, "right", s[2], nr)))]

ZippedFn_async_call_mut(z, args, nl, nr) ==
    LET s == split_tuple_into(args)
    IN  [z    |-> z,
         join |-> NewJoin("Join", "async_call_mut", args,
                    MaybeDone_Future(Child_async_call(z.left, "left", s[1], nl)),
                    MaybeDone_Future(Child_async_call(z.right, "right", s[2], nr)))]

\* mutant: while an earlier join is held, the new join is given its sides
M_async_call_shares_sides(z, args, nl, nr) ==
    LET s == split_tuple_into(args)
    IN  [z    |-> z,
         join |-> IF held.kind = "None"
                  THEN NewJoin("Join", "async_call", args,
                         MaybeDone_Future(
                             Child_async_call(z.left, "left", s[1], nl)),
                         MaybeDone_Future(
                             Child_async_call(z.right, "right", s[2], nr)))
                  ELSE NewJoin("Join", "async_call", args,
                               held.left, held.right)]

ZippedFn_async_call(z, args, nl, nr) ==
    LET s == split_tuple_into(args)
    IN  [z    |-> z,
         join |-> NewJoin("Join", "async_call", args,
                    MaybeDone_Future(Child_async_call(z.left, "left", s[1], nl)),
                    MaybeDone_Future(Child_async_call(z.right, "right", s[2], nr)))]

\* ---------------------------------------------------------- ZippedFnPar
\* Option::None of a thread name or of a stack size
None == <<>>

Some(x) == <<x>>

\* ZippedFnPar::from: the zipped pair with no thread name and no stack size
ZippedFnPar_from ==
    [thread_names       |-> <<None, None>>,
     thread_stack_sizes |-> <<None, None>>]

NoParCall == [pc |-> "idle", n |-> 0]

\* the names and stack sizes a caller may write to the two pub fields
ThreadNames == <<"left-worker", "right-worker">>

StackSizes == <<4096, 8192>>

\* every option set, and a mix of set and unset ones
ParConfigs ==
    {[thread_names       |-> <<Some(ThreadNames[1]), Some(ThreadNames[2])>>,
      thread_stack_sizes |-> <<Some(StackSizes[1]), Some(StackSizes[2])>>],
     [thread_names       |-> <<Some(ThreadNames[1]), None>>,
      thread_stack_sizes |-> <<None, Some(StackSizes[2])>>]}

\* private::tuple_split_const: the split of the combined arguments at LX
tuple_split_const(args) ==
    <<SubSeq(args, 1, LX), SubSeq(args, LX + 1, Len(args))>>

\* the two std::thread::Builder values: Builder::new() with the name and
\* the stack size of its side, where there is one
Builders(p) ==
    [k \in 1..2 |-> [name       |-> p.thread_names[k],
                     stack_size |-> p.thread_stack_sizes[k]]]

\* call_once: each_mut() and take() move the options out of the fields
ZippedFnPar_take_builders(p) ==
    [par |-> ZippedFnPar_from, builders |-> Builders(p)]

\* mutant: the repeatable forms take the options out as call_once does
M_clone_builders_takes(p) ==
    [par |-> ZippedFnPar_from, builders |-> Builders(p)]

\* call_mut, call: each_ref(), name.clone() and *stack_size
ZippedFnPar_clone_builders(p) ==
    [par |-> p, builders |-> Builders(p)]

\* Result<(LF::Output, RF::Output), (bool, ParError)>
Ok(l, r) == [is |-> "Ok", val |-> <<l, r>>]

Err(tag, kind) == [is |-> "Err", tag |-> tag, kind |-> kind]

NoResult == [is |-> "None"]

\* the invocation unwinds: panic!("a scoped thread panicked")
Panicked == [is |-> "Panic"]

\* a worker thread of one invocation
NoWorker ==
    [state |-> "unspawned", joined |-> FALSE, out |-> NoVal,
     builder |-> [name |-> None, stack_size |-> None]]

Workers == {"left", "right"}

\* mutant: the scope returns once its closure has returned
M_Scope_does_not_wait(c) == TRUE

\* std::thread::scope waits until no spawned thread is running
Scope_all_joined(c) ==
    c.left.state # "running" /\ c.right.state # "running"

\* a thread that panicked and whose handle was not joined by the closure
Scope_a_thread_panicked(c) ==
    \E w \in {c.left, c.right} : w.state = "panicked" /\ ~w.joined

\* mutant: the pair is packed right value first
M_Ok_swapped(c, rout) == Ok(rout, c.left.out)

\* Ok((handle_left.join()?, handle_right.join()?))
Scope_Ok(c, rout) == Ok(c.left.out, rout)

\* ------------------------------------------------------------------ Init
Init ==
    /\ LX \in Arities
    /\ RX \in Arities
    /\ LX + RX <= MaxArity
    /\ \E lt \in Tiers, rt \in Tiers :
          zipped = ZippedFn_new([tier |-> lt, st |-> <<>>],
                                [tier |-> rt, st |-> <<>>])
    /\ rets = <<>>
    /\ effects = <<>>
    /\ join = NoJoin
    /\ held = NoJoin
    /\ par = ZippedFnPar_from
    /\ pcall = NoParCall

\* --------------------------------------------------- synchronous actions
Returned(form, args, r) ==
    /\ zipped' = r.z
    /\ rets' = Append(rets, [form |-> form, args |-> args, out |-> r.out,
                             pre |-> zipped])
    /\ effects' = r.log
    /\ UNCHANGED <<LX, RX, join, held, par, pcall>>

CallOnce ==
    /\ zipped.alive
    /\ join.kind = "None"
    /\ held.kind = "None"
    /\ Len(rets) < MaxCalls
    /\ \E args \in ConcatTuples :
          Returned("call_once", args, ZippedFn_call_once(zipped, args))

CallMut ==
    /\ zipped.alive
    /\ join.kind = "None"
    /\ held.kind = "None"
    /\ IsFnMut(zipped.left) /\ IsFnMut(zipped.right)
    /\ Len(rets) < MaxCalls
    /\ \E args \in ConcatTuples :
          Returned("call_mut", args, ZippedFn_call_mut(zipped, args))

Call ==
    /\ zipped.alive
    /\ IF join.kind = "None" THEN TRUE
       ELSE join.form \in {"async_call", "new"}
    /\ IsFn(zipped.left) /\ IsFn(zipped.right)
    /\ Len(rets) < MaxCalls
    /\ \E args \in ConcatTuples :
          Returned("call", args, ZippedFn_call(zipped, args))

NextSync == CallOnce \/ CallMut \/ Call

SpecSync == Init /\ [][NextSync]_vars

\* -------------------------------------------------- asynchronous actions
AsyncReturned(r) ==
    /\ zipped' = r.z
    /\ join' = r.join
    /\ UNCHANGED <<LX, RX, rets, effects, held, par, pcall>>

AsyncCallOnce ==
    /\ zipped.alive
    /\ join.kind = "None"
    /\ held.kind = "None"
    /\ \E args \in ConcatTuples, nl \in Needs, nr \in Needs :
          AsyncReturned(ZippedFn_async_call_once(zipped, args, nl, nr))

AsyncCallMut ==
    /\ zipped.alive
    /\ join.kind = "None"
    /\ held.kind = "None"
    /\ IsFnMut(zipped.left) /\ IsFnMut(zipped.right)
    /\ \E args \in ConcatTuples, nl \in Needs, nr \in Needs :
          AsyncReturned(ZippedFn_async_call_mut(zipped, args, nl, nr))

AsyncCall ==
    /\ zipped.alive
    /\ join.kind = "None"
    /\ IsFn(zipped.left) /\ IsFn(zipped.right)
    /\ \E args \in ConcatTuples, nl \in Needs, nr \in Needs :
          AsyncReturned(ZippedFn_async_call(zipped, args, nl, nr))

\* JoinedPair::new over two futures of the caller's own
NewJoinedPair ==
    /\ join.kind = "None"
    /\ \E lv \in ArgVals, rv \in ArgVals, nl \in Needs, nr \in Needs :
          join' = JoinedPair_new(NewFuture(nl, Apply("left", <<>>, <<lv>>)),
                                 NewFuture(nr, Apply("right", <<>>, <<rv>>)))
    /\ UNCHANGED <<LX, RX, zipped, rets, effects, held, par, pcall>>

\* one drive step of the join by its caller
Drive(p) ==
    /\ join' = [join EXCEPT
                  !.left    = p.left,
                  !.right   = p.right,
                  !.steps   = @ + 1,
                  !.polled  = p.res,
                  !.output  = IF p.res = "Ready" THEN p.out ELSE @,
                  !.readies = IF p.res = "Ready" THEN @ + 1 ELSE @,
                  !.readyAt = IF p.res = "Ready" /\ @ = 0
                              THEN join.steps + 1 ELSE @]
    /\ UNCHANGED <<LX, RX, zipped, rets, effects, held, par, pcall>>

PollJoin ==
    /\ join.kind = "Join"
    /\ join.steps < MaxSteps
    /\ Drive(Join_poll(join))

PollJoinedPair ==
    /\ join.kind = "JoinedPair"
    /\ join.steps < MaxSteps
    /\ Drive(JoinedPair_poll(join))

\* the caller drops the join, finished or not
DropJoin ==
    /\ join.kind # "None"
    /\ join' = NoJoin
    /\ UNCHANGED <<LX, RX, zipped, rets, effects, held, par, pcall>>

NextJoin ==
    \/ AsyncCallOnce
    \/ AsyncCallMut
    \/ AsyncCall
    \/ NewJoinedPair
    \/ PollJoin
    \/ PollJoinedPair
    \/ DropJoin

SpecJoin == Init /\ [][NextJoin]_vars

\* the drive steps of an awaiting caller: the join is driven to its pair
\* and dropped after it (lib.rs, `.await` in tests::test_async)
DropFinished ==
    /\ join.kind # "None"
    /\ join.readies > 0
    /\ join' = NoJoin
    /\ UNCHANGED <<LX, RX, zipped, rets, effects, held, par, pcall>>

NextAwait ==
    \/ AsyncCallOnce
    \/ AsyncCallMut
    \/ AsyncCall
    \/ NewJoinedPair
    \/ PollJoin
    \/ PollJoinedPair
    \/ DropFinished

\* a caller that keeps driving the join it holds
LiveJoin ==
    /\ Init
    /\ [][NextAwait]_vars
    /\ WF_vars(PollJoin)
    /\ WF_vars(PollJoinedPair)

\* the caller sets a join of async_call aside before driving it and invokes
\* the ZippedFn again: both joins borrow the ZippedFn shared
HoldJoin ==
    /\ join.kind = "Join"
    /\ join.form = "async_call"
    /\ join.steps = 0
    /\ held.kind = "None"
    /\ held' = join
    /\ join' = NoJoin
    /\ UNCHANGED <<LX, RX, zipped, rets, effects, par, pcall>>

DropHeld ==
    /\ held.kind # "None"
    /\ held' = NoJoin
    /\ UNCHANGED <<LX, RX, zipped, rets, effects, join, par, pcall>>

NextShared ==
    \/ AsyncCallOnce
    \/ AsyncCallMut
    \/ AsyncCall
    \/ PollJoin
    \/ DropJoin
    \/ HoldJoin
    \/ DropHeld

SpecShared == Init /\ [][NextShared]_vars

\* the consuming forms next to the asynchronous ones
NextOnce ==
    \/ CallOnce
    \/ AsyncCallOnce
    \/ AsyncCallMut
    \/ AsyncCall
    \/ DropJoin

SpecOnce == Init /\ [][NextOnce]_vars

\* ------------------------------------------------------ parallel actions
\* the caller writes the pub fields thread_names and thread_stack_sizes
Configure ==
    /\ zipped.alive
    /\ pcall = NoParCall
    /\ par = ZippedFnPar_from
    /\ par' \in ParConfigs
    /\ UNCHANGED <<LX, RX, zipped, rets, effects, join, held, pcall>>

\* entry of call_once / call_mut / call up to std::thread::scope; `fails`
\* lists the sides that failed, in the order in which they did
ParEnter(form, args, b) ==
    /\ pcall.pc \in {"idle", "returned"}
    /\ pcall.n < MaxCalls
    /\ pcall' = [pc       |-> "spawn_left",
                 n        |-> pcall.n + 1,
                 form     |-> form,
                 args     |-> args,
                 slices   |-> tuple_split_const(args),
                 builders |-> b.builders,
                 pre      |-> zipped,
                 cfg      |-> par,
                 left     |-> NoWorker,
                 right    |-> NoWorker,
                 fails    |-> <<>>,
                 closure  |-> NoResult,
                 result   |-> NoResult]
    /\ par' = b.par
    /\ zipped' = IF form = "call_once"
                 THEN [zipped EXCEPT !.alive = FALSE] ELSE zipped
    /\ effects' = <<>>
    /\ UNCHANGED <<LX, RX, rets, join, held>>

ParCallOnce ==
    /\ zipped.alive
    /\ join.kind = "None" /\ held.kind = "None"
    /\ \E args \in ConcatTuples :
          ParEnter("call_once", args, ZippedFnPar_take_builders(par))

ParCallMut ==
    /\ zipped.alive
    /\ join.kind = "None" /\ held.kind = "None"
    /\ IsFnMut(zipped.left) /\ IsFnMut(zipped.right)
    /\ \E args \in ConcatTuples :
          ParEnter("call_mut", args, ZippedFnPar_clone_builders(par))

ParCall ==
    /\ zipped.alive
    /\ join.kind = "None" /\ held.kind = "None"
    /\ IsFn(zipped.left) /\ IsFn(zipped.right)
    /\ \E args \in ConcatTuples :
          ParEnter("call", args, ZippedFnPar_clone_builders(par))

ParStep(c) ==
    /\ pcall' = c
    /\ UNCHANGED <<LX, RX, zipped, rets, effects, join, held, par>>

\* mutant: a spawn error is kept but the closure goes on to its next step
M_spawn_error_goes_on(next) == next

\* the `?` after map_err: on a spawn error the closure of the scope returns
\* at once, whatever its next step would have been
After_spawn_error(next) == "scope_exit"

\* builders.next().unwrap().spawn_scoped(..left..).map_err(..)? : the thread
\* starts, or the closure of the scope returns the error tagged false
SpawnLeft ==
    /\ pcall.pc = "spawn_left"
    /\ \/ ParStep([pcall EXCEPT
                     !.pc   = "spawn_right",
                     !.left = [@ EXCEPT !.state = "running",
                                        !.builder = pcall.builders[1]]])
       \/ ParStep([pcall EXCEPT
                     !.pc      = After_spawn_error("spawn_right"),
                     !.left    = [@ EXCEPT !.state = "failed"],
                     !.fails   = Append(@, "left"),
                     !.closure = Err(FALSE, "SpawnThreadError")])

SpawnRight ==
    /\ pcall.pc = "spawn_right"
    /\ \/ ParStep([pcall EXCEPT
                     !.pc    = "join_left",
                     !.right = [@ EXCEPT !.state = "running",
                                         !.builder = pcall.builders[2]]])
       \/ ParStep([pcall EXCEPT
                     !.pc      = After_spawn_error("join_left"),
                     !.right   = [@ EXCEPT !.state = "failed"],
                     !.fails   = Append(@, "right"),
                     !.closure = Err(TRUE, "SpawnThreadError")])

\* the child call of one form
Child_invoke(form, child, side, args, log) ==
    CASE form = "call_once" -> Child_call_once(child, side, args, log)
      [] form = "call_mut"  -> Child_call_mut(child, side, args, log)
      [] form = "call"      -> Child_call(child, side, args, log)

\* the body of a worker thread: the child runs to its return value, or it
\* panics; the captured state records the invocation either way
Run(side) ==
    LET w     == IF side = "left" THEN pcall.left ELSE pcall.right
        child == IF side = "left" THEN zipped.left ELSE zipped.right
        slice == IF side = "left" THEN pcall.slices[1] ELSE pcall.slices[2]
        r     == Child_invoke(pcall.form, child, side, slice, effects)
        Ends(state, out, c) ==
            /\ pcall' = IF side = "left"
                        THEN [pcall EXCEPT
                                !.left.state = state,
                                !.left.out = out,
                                !.fails = IF state = "panicked"
                                          THEN Append(@, side) ELSE @]
                        ELSE [pcall EXCEPT
                                !.right.state = state,
                                !.right.out = out,
                                !.fails = IF state = "panicked"
                                          THEN Append(@, side) ELSE @]
            /\ zipped' = IF side = "left"
                         THEN [zipped EXCEPT !.left = c]
                         ELSE [zipped EXCEPT !.right = c]
            /\ effects' = r.log
            /\ UNCHANGED <<LX, RX, rets, join, held, par>>
    IN  /\ pcall.pc \notin {"idle", "returned", "panicked"}
        /\ w.state = "running"
        /\ \/ Ends("finished", r.out, r.child)
           \/ Ends("panicked", NoVal, r.child)

RunLeft == Run("left")

RunRight == Run("right")

\* handle_left.join().map_err(..)? : blocks until the left thread has ended
JoinLeft ==
    /\ pcall.pc = "join_left"
    /\ \/ /\ pcall.left.state = "finished"
          /\ ParStep([pcall EXCEPT !.pc = "join_right",
                                   !.left.joined = TRUE])
       \/ /\ pcall.left.state = "panicked"
          /\ ParStep([pcall EXCEPT
                        !.pc = "scope_exit",
                        !.left.joined = TRUE,
                        !.closure = Err(FALSE, "JoinThreadError")])

JoinRight ==
    /\ pcall.pc = "join_right"
    /\ \/ /\ pcall.right.state = "finished"
          /\ ParStep([pcall EXCEPT
                        !.pc = "scope_exit",
                        !.right.joined = TRUE,
                        !.closure = Scope_Ok(pcall, pcall.right.out)])
       \/ /\ pcall.right.state = "panicked"
          /\ ParStep([pcall EXCEPT
                        !.pc = "scope_exit",
                        !.right.joined = TRUE,
                        !.closure = Err(TRUE, "JoinThreadError")])

\* the end of std::thread::scope: every spawned thread has ended; the
\* value of the closure is returned unless a thread whose handle was not
\* joined has panicked, and then the scope panics
ScopeExit ==
    /\ pcall.pc = "scope_exit"
    /\ Scope_all_joined(pcall)
    /\ IF Scope_a_thread_panicked(pcall)
       THEN ParStep([pcall EXCEPT !.pc = "panicked", !.result = Panicked])
       ELSE ParStep([pcall EXCEPT !.pc = "returned",
                                  !.result = pcall.closure])

NextPar ==
    \/ Configure
    \/ ParCallOnce
    \/ ParCallMut
    \/ ParCall
    \/ SpawnLeft
    \/ SpawnRight
    \/ RunLeft
    \/ RunRight
    \/ JoinLeft
    \/ JoinRight
    \/ ScopeExit

SpecPar == Init /\ [][NextPar]_vars

\* ============================================================== claims
\* the slices of a combined argument list, written out element by element
LeftSlice(args) == [k \in 1..LX |-> args[k]]

RightSlice(args) == [k \in 1..RX |-> args[LX + k]]

\* the pair of calling each child on its own, from the ZippedFn `z`
IndependentPair(z, args) ==
    <<Apply("left", z.left.st, LeftSlice(args)),
      Apply("right", z.right.st, RightSlice(args))>>

Max(a, b) == IF a >= b THEN a ELSE b

IsPrefix(s, t) == Len(s) <= Len(t) /\ \A k \in 1..Len(s) : s[k] = t[k]

Sides == IF join.kind = "None" THEN {} ELSE {join.left, join.right}

\* a step that is one drive step of the join
IsDriveStep ==
    /\ join.kind # "None"
    /\ join'.kind # "None"
    /\ join'.steps = join.steps + 1

\* C1: every synchronous invocation (call_once, call_mut, call) returns the
\* pair (left(first LX arguments), right(remaining RX arguments)), the pair
\* of calling each child on its own slice.
C1_SyncPair ==
    \A i \in 1..Len(rets) :
        rets[i].out = IndependentPair(rets[i].pre, rets[i].args)

C1_Witness ==
    /\ LX = 1 /\ RX = 1
    /\ Len(rets) = 2
    /\ rets[1].form = "call"
    /\ rets[2].form = "call_once"
    /\ \A i \in 1..2 : rets[i].args[1] # rets[i].args[2]

\* C2: with the left child completing on its nL-th poll and the right on its
\* nR-th, the join reports ready on exactly drive step max(nL, nR) and not
\* ready on every earlier step.
C2_ReadyAtMax ==
    join.kind # "None" =>
        LET m == Max(join.left.fut.need, join.right.fut.need)
        IN  /\ (join.steps >= 1 /\ join.steps < m) => join.polled = "Pending"
            /\ join.steps >= m => join.readyAt = m

\* C3: in every drive step in which the right side is still Future, the
\* right child is polled once, whatever the left side did in that step.
C3_RightAlwaysAdvanced ==
    [][(IsDriveStep /\ join.right.tag = "Future")
          => join'.right.fut.polls = join.right.fut.polls + 1]_vars

\* C4: whenever a join has reported ready, its pair is (Lv, Rv): Lv the
\* output of the left child's future and Rv of the right one's, and for a
\* join returned by async_call, async_call_mut or async_call_once these are
\* the outputs of the two children on their own argument slices.
C4_AsyncPair ==
    (join.kind # "None" /\ join.readies > 0) =>
        /\ join.output = <<join.left.fut.out, join.right.fut.out>>
        /\ join.kind = "Join" =>
              join.output = IndependentPair(join.pre, join.args)

C4_Witness ==
    /\ join.kind = "Join"
    /\ join.form = "async_call_mut"
    /\ join.polled = "Ready"
    /\ LX = 1 /\ RX = 1
    /\ join.args[1] # join.args[2]
    /\ join.left.fut.need > join.right.fut.need

\* C5: after the join has reported ready once, every further drive step
\* panics; the pair is reported at most once.
C5_PanicAfterReady ==
    join.kind # "None" =>
        /\ join.readies <= 1
        /\ (join.readyAt > 0 /\ join.steps > join.readyAt)
              => join.polled = "Panic"

C5_Witness ==
    /\ join.kind # "None"
    /\ join.readyAt > 0
    /\ join.steps > join.readyAt + 1

\* C6: each side only moves forward along Future -> Done -> Taken: no
\* variant is revisited, Done is never skipped, the value is taken once.
C6_ForwardOnly ==
    \A md \in Sides :
        /\ IsPrefix(md.hist, <<"Future", "Done", "Taken">>)
        /\ md.tag = md.hist[Len(md.hist)]

C6_Witness ==
    /\ join.kind # "None"
    /\ join.left.hist = <<"Future", "Done", "Taken">>
    /\ join.right.hist = <<"Future", "Done", "Taken">>
    /\ join.steps > join.readyAt

\* C7: a child that has completed is never polled again, and its stored
\* value stays what it completed with while the other side is driven.
C7_NoPollAfterDone ==
    \A md \in Sides :
        /\ md.fut.polls <= md.fut.need
        /\ md.tag = "Done" => (md.fut.polls = md.fut.need /\ md.val = md.fut.out)

C7_Witness ==
    /\ join.kind # "None"
    /\ join.left.tag = "Done"
    /\ join.right.tag = "Future"
    /\ join.steps > join.left.fut.need
    /\ join.right.fut.polls >= 2

\* C8: a join that its caller keeps driving eventually reports ready.
C8_EventuallyReady ==
    (join.kind # "None") ~> (join.kind # "None" /\ join.readies > 0)

C8_Witness ==
    /\ join.kind # "None"
    /\ join.readies > 0
    /\ join.left.fut.need = MaxPolls
    /\ join.right.fut.need = MaxPolls

\* C9: every synchronous invocation invokes the left child and then the
\* right child, each exactly once, each on its own slice.
C9_LeftThenRight ==
    Len(rets) > 0 =>
        effects = << <<"left", LeftSlice(rets[Len(rets)].args)>>,
                     <<"right", RightSlice(rets[Len(rets)].args)>> >>

C9_Witness ==
    /\ Len(rets) = 2
    /\ rets[1].form = "call_mut"
    /\ rets[2].form = "call_once"
    /\ LX = 1 /\ RX = 1

\* C10: a ZippedFn of two Fn children can be invoked through call again and
\* again: an invocation leaves the ZippedFn as it was, and two invocations
\* with the same combined arguments return the same pair.
C10_CallRepeats ==
    /\ [](\A i \in 1..Len(rets), k \in 1..Len(rets) :
            (rets[i].form = "call" /\ rets[k].form = "call"
               /\ rets[i].args = rets[k].args) => rets[i].out = rets[k].out)
    /\ [][(Len(rets') = Len(rets) + 1 /\ rets'[Len(rets')].form = "call")
            => zipped' = zipped]_vars

C10_Witness ==
    /\ LX = 1 /\ RX = 1
    /\ Len(rets) = 2
    /\ rets[1].form = "call"
    /\ rets[2].form = "call"
    /\ rets[1].args = rets[2].args
    /\ rets[1].args[1] # rets[1].args[2]

\* C11: an asynchronous invocation returns a fresh join: both sides are
\* Future over the children's own suspended computations for their argument
\* slices, no child has been polled by the invocation, and the join shares
\* nothing with a join of another invocation that is still held.
Joins == {j \in {join, held} : j.kind = "Join"}

IsFresh(j) ==
    /\ j.left.tag = "Future" /\ j.right.tag = "Future"
    /\ j.left.hist = <<"Future">> /\ j.right.hist = <<"Future">>
    /\ j.left.fut.polls = 0 /\ j.right.fut.polls = 0
    /\ j.polled = "None" /\ j.readies = 0 /\ j.output = NoVal

C11_FreshJoin ==
    /\ [](\A j \in Joins :
            /\ j.left.fut.out = Apply("left", j.pre.left.st, LeftSlice(j.args))
            /\ j.right.fut.out =
                  Apply("right", j.pre.right.st, RightSlice(j.args))
            /\ j.steps = 0 => IsFresh(j))
    /\ [][(join.kind = "None" /\ join'.kind = "Join")
            => /\ IsFresh(join') /\ join'.steps = 0
               /\ join'.pre = zipped
               /\ held' = held]_vars
    /\ [][IsDriveStep => held' = held]_vars

C11_Witness ==
    /\ LX = 1 /\ RX = 1
    /\ held.kind = "Join" /\ join.kind = "Join"
    /\ join.steps = 0
    /\ held.args # join.args
    /\ held.left.fut.need # join.left.fut.need

\* the parallel invocation has come back to its caller, with a value or
\* unwinding
ParOver == pcall.pc \in {"returned", "panicked"}

\* the error of a side: could-not-start or child-aborted, tagged with it
ErrorOf(side) ==
    LET w == IF side = "left" THEN pcall.left ELSE pcall.right
    IN  Err(side = "right",
            IF w.state = "failed" THEN "SpawnThreadError"
            ELSE "JoinThreadError")

\* C12: a failure of the parallel invocation is tagged with its side: if
\* the right worker fails to launch while the left launches, the call
\* returns the could-not-start error tagged right (true); a launch failure
\* or an abnormal termination of the left worker is tagged left (false).
C12_TaggedBySide ==
    ParOver =>
        /\ (pcall.right.state = "failed" /\ pcall.left.state # "failed")
              => pcall.result = Err(TRUE, "SpawnThreadError")
        /\ pcall.left.state = "failed"
              => pcall.result = Err(FALSE, "SpawnThreadError")
        /\ (pcall.left.state = "panicked" /\ pcall.right.state # "failed")
              => pcall.result = Err(FALSE, "JoinThreadError")

\* C13: when a parallel invocation comes back to its caller, on success,
\* on a launch failure or on an abnormal termination of either side, every
\* worker it started has terminated.
C13_NoLeakedThread ==
    ParOver =>
        \A w \in {pcall.left, pcall.right} :
            w.state \in {"unspawned", "failed", "finished", "panicked"}

C13_Witness ==
    /\ pcall.pc = "returned"
    /\ pcall.right.state = "failed"
    /\ pcall.left.state = "finished"
    /\ pcall.result = Err(TRUE, "SpawnThreadError")
    /\ effects = << <<"left", pcall.slices[1]>> >>

\* C14: when at least one side fails, the parallel invocation returns
\* exactly one error value, the error of the side that failed first,
\* whatever the other side did and in whatever order the two failed.
C14_FirstFailureReported ==
    (ParOver /\ pcall.fails # <<>>) =>
        pcall.result = ErrorOf(pcall.fails[1])

\* C15: when both workers launch and both children return, the parallel
\* invocation returns Ok of the pair (left(left slice), right(right
\* slice)) that the sequential ZippedFn returns, in every interleaving.
C15_ParPair ==
    (ParOver /\ pcall.left.state = "finished"
             /\ pcall.right.state = "finished") =>
        /\ pcall.result.is = "Ok"
        /\ pcall.result.val = IndependentPair(pcall.pre, pcall.args)
        /\ pcall.result.val = ZippedFn_call_once(pcall.pre, pcall.args).out

C15_Witness ==
    /\ LX = 1 /\ RX = 1
    /\ pcall.pc = "returned"
    /\ pcall.n = 2
    /\ pcall.form = "call_mut"
    /\ pcall.result.is = "Ok"
    /\ pcall.args[1] # pcall.args[2]
    /\ effects = << <<"right", pcall.slices[2]>>,
                    <<"left", pcall.slices[1]>> >>

\* C16: split is the exact inverse of concatenation: splitting the
\* concatenation of a left and a right list gives the two lists back,
\* concatenating the two slices of a combined list gives the list back, the
\* order is kept and every argument lands on exactly one side.
C16_SplitInverse ==
    /\ \A c \in ConcatTuples :
          LET s == split_tuple_into(c)
          IN  /\ concat_tuples(s[1], s[2]) = c
              /\ Len(s[1]) = LX /\ Len(s[2]) = RX
              /\ \A k \in 1..Len(c) :
                    IF k <= LX THEN s[1][k] = c[k] ELSE s[2][k - LX] = c[k]
    /\ \A l \in [1..LX -> ArgVals], r \in [1..RX -> ArgVals] :
          /\ concat_tuples(l, r) \in ConcatTuples
          /\ split_tuple_into(concat_tuples(l, r)) = <<l, r>>
    /\ Len(rets) > 0 =>
          /\ Len(effects) = 2
          /\ concat_tuples(effects[1][2], effects[2][2])
                = rets[Len(rets)].args

C16_Witness ==
    /\ LX = 2 /\ RX = 0
    /\ Len(rets) = 1
    /\ rets[1].args[1] # rets[1].args[2]
    /\ effects = << <<"left", rets[1].args>>, <<"right", <<>> >> >>

\* C17: an invocation through a consume-once form (call_once,
\* async_call_once) consumes the ZippedFn: afterwards no form of
\* invocation of it is possible, and a child that is only FnOnce is
\* invoked at most once.
AnyInvocation ==
    \/ CallOnce
    \/ CallMut
    \/ Call
    \/ AsyncCallOnce
    \/ AsyncCallMut
    \/ AsyncCall

IsFnOnceOnly(child) == child.tier = "FnOnce"

C17_ConsumedOnce ==
    /\ []((\/ Len(rets) > 0 /\ rets[Len(rets)].form = "call_once"
           \/ join.kind = "Join" /\ join.form = "async_call_once")
            => ~zipped.alive)
    /\ [](~zipped.alive => ~ENABLED AnyInvocation)
    /\ []((IsFnOnceOnly(zipped.left) \/ IsFnOnceOnly(zipped.right))
            => /\ Len(rets) <= 1
               /\ ~ENABLED (CallMut \/ Call \/ AsyncCallMut \/ AsyncCall)
               /\ join.kind = "Join" => (join.form = "async_call_once"
                                          /\ rets = <<>>))
    /\ [][~zipped.alive => (zipped' = zipped /\ rets' = rets
                              /\ join' \in {join, NoJoin})]_vars

C17_Witness ==
    /\ ~zipped.alive
    /\ rets = <<>>
    /\ join = NoJoin
    /\ IsFnOnceOnly(zipped.left)
    /\ LX = 1 /\ RX = 1

\* C18: over any sequence of call_mut invocations the left child's state
\* and the left component of every result depend on the left slices only,
\* and the right ones on the right slices only: a run that differs in the
\* slices of the other side gives the same results and the same state; and
\* after k invocations each child has been invoked k times.
RECURSIVE Replay(_, _)
Replay(z, argss) ==
    IF argss = <<>> THEN [z |-> z, outs |-> <<>>]
    ELSE LET r    == ZippedFn_call_mut(z, Head(argss))
             rest == Replay(r.z, Tail(argss))
         IN  [z |-> rest.z, outs |-> <<r.out>> \o rest.outs]

AllCallMut == \A i \in 1..Len(rets) : rets[i].form = "call_mut"

C18_SidesIndependent ==
    (Len(rets) > 0 /\ AllCallMut) =>
        LET k == Len(rets)
        IN  /\ \A rs \in [1..k -> [1..RX -> ArgVals]] :
                  LET run == Replay(rets[1].pre,
                                 [i \in 1..k |->
                                    concat_tuples(LeftSlice(rets[i].args),
                                                  rs[i])])
                  IN  /\ run.z.left = zipped.left
                      /\ \A i \in 1..k : run.outs[i][1] = rets[i].out[1]
            /\ \A ls \in [1..k -> [1..LX -> ArgVals]] :
                  LET run == Replay(rets[1].pre,
                                 [i \in 1..k |->
                                    concat_tuples(ls[i],
                                                  RightSlice(rets[i].args))])
                  IN  /\ run.z.right = zipped.right
                      /\ \A i \in 1..k : run.outs[i][2] = rets[i].out[2]
            /\ zipped.left.tier = "FnMut" => Len(zipped.left.st) = k
            /\ zipped.right.tier = "FnMut" => Len(zipped.right.st) = k

C18_Witness ==
    /\ LX = 1 /\ RX = 1
    /\ Len(rets) = 2
    /\ AllCallMut
    /\ zipped.left.tier = "FnMut" /\ zipped.right.tier = "FnMut"
    /\ rets[1].args # rets[2].args
    /\ rets[2].out[1].st = <<LeftSlice(rets[1].args)>>

\* C19: between drive steps the left side is Taken exactly when the right
\* side is Taken, and after a drive step that reported "not ready" neither
\* side is Taken.
C19_TakenTogether ==
    join.kind # "None" =>
        /\ join.left.tag = "Taken" <=> join.right.tag = "Taken"
        /\ join.polled = "Pending" =>
              (join.left.tag # "Taken" /\ join.right.tag # "Taken")

C19_Witness ==
    /\ join.kind = "Join"
    /\ join.polled = "Ready"
    /\ join.steps >= 3
    /\ join.left.tag = "Taken" /\ join.right.tag = "Taken"
    /\ join.left.fut.need = 1

\* C20: in the parallel variant call_mut and call leave thread_names and
\* thread_stack_sizes as they were and build their workers from copies, so
\* every repeated invocation runs with the same configuration; only
\* call_once takes the configuration out of the fields.
IsParEntry == pcall'.n = pcall.n + 1

C20_ConfigKept ==
    /\ [][IsParEntry =>
            /\ pcall'.builders = Builders(par)
            /\ IF pcall'.form = "call_once"
               THEN par' = ZippedFnPar_from
               ELSE par' = par]_vars
    /\ [][(par' # par /\ ~IsParEntry) => pcall = NoParCall]_vars
    /\ [](\A k \in 1..2 :
            LET w == IF k = 1 THEN pcall.left ELSE pcall.right
            IN  (pcall.pc # "idle" /\ w.state \notin {"unspawned", "failed"})
                  => w.builder = Builders(pcall.cfg)[k])

C20_Witness ==
    /\ pcall.pc = "returned"
    /\ pcall.n = 2
    /\ pcall.form = "call_mut"
    /\ par.thread_names = <<Some(ThreadNames[1]), None>>
    /\ par.thread_stack_sizes = <<None, Some(StackSizes[2])>>
    /\ pcall.left.builder = [name |-> Some(ThreadNames[1]),
                             stack_size |-> None]
    /\ pcall.right.builder = [name |-> None,
                              stack_size |-> Some(StackSizes[2])]

\* C21: up to and including the first "ready" no drive step of a join
\* panics: when the readiness check is passed both sides are Done, both
\* take_output calls give a value, and the pair is made of these two.
C21_CollectsFromDone ==
    /\ [](join.kind # "None" =>
            /\ join.polled = "Panic"
                  => (join.readyAt > 0 /\ join.steps > join.readyAt)
            /\ join.readies > 0
                  => \A md \in Sides : md.hist = <<"Future", "Done", "Taken">>)
    /\ [][(IsDriveStep /\ join'.polled = "Ready")
            => /\ join.left.tag \in {"Future", "Done"}
               /\ join.right.tag \in {"Future", "Done"}
               /\ join'.output = <<join'.left.fut.out, join'.right.fut.out>>
               /\ join.left.tag = "Done" => join'.output[1] = join.left.val
               /\ join.right.tag = "Done"
                     => join'.output[2] = join.right.val]_vars

C21_Witness ==
    /\ join.kind = "JoinedPair"
    /\ join.polled = "Ready"
    /\ join.steps = join.readyAt
    /\ join.left.fut.need = 2
    /\ join.right.fut.need = 2
    /\ join.left.tag = "Taken" /\ join.right.tag = "Taken"

\* C22: with the left child completing on its nL-th poll and the right on
\* its nR-th, a join that is driven step after step has reported "ready"
\* by drive step nL + nR - 1, and by then the left child has been polled
\* nL times and the right child nR times, and neither is polled again.
C22_ReadyByLeftPlusRight ==
    join.kind # "None" =>
        LET nL == join.left.fut.need
            nR == join.right.fut.need
        IN  /\ join.steps >= nL + nR - 1
                  => (join.readyAt > 0 /\ join.readyAt <= nL + nR - 1)
            /\ join.readyAt > 0
                  => (join.left.fut.polls = nL /\ join.right.fut.polls = nR)
            /\ join.left.fut.polls <= nL /\ join.right.fut.polls <= nR

C22_Witness ==
    /\ join.kind = "Join"
    /\ join.left.fut.need = 2
    /\ join.right.fut.need = MaxPolls
    /\ join.readyAt = MaxPolls + 1
    /\ join.steps = join.readyAt + 2

\* C23: in the parallel variant, if the left worker fails to launch the
\* right worker is never started and the right child is not invoked; if
\* the right worker fails to launch the left worker has been started
\* already and its child runs to its end, its result being dropped.
C23_SpawnFailure ==
    pcall.pc # "idle" =>
        /\ pcall.left.state = "failed" =>
              /\ pcall.right.state = "unspawned"
              /\ effects = <<>>
              /\ zipped.left = pcall.pre.left
              /\ zipped.right = pcall.pre.right
        /\ pcall.right.state = "failed" =>
              /\ pcall.left.state \in {"running", "finished", "panicked"}
              /\ pcall.left.builder = pcall.builders[1]
              /\ ParOver =>
                    /\ pcall.left.state \in {"finished", "panicked"}
                    /\ effects = << <<"left", pcall.slices[1]>> >>
                    /\ zipped.right = pcall.pre.right
                    /\ ~pcall.left.joined
                    /\ pcall.left.state = "finished" =>
                          pcall.result = Err(TRUE, "SpawnThreadError")

C23_Witness ==
    /\ LX = 1 /\ RX = 1
    /\ pcall.pc = "returned"
    /\ pcall.n = 2
    /\ pcall.left.state = "failed"
    /\ pcall.result = Err(FALSE, "SpawnThreadError")
    /\ zipped.left.tier = "FnMut" /\ zipped.right.tier = "FnMut"
    /\ Len(zipped.left.st) = 1
    /\ zipped.right.st = <<>>

====
